---- MODULE Spec2Model ----
(***************************************************************************)
(* Model of the simulation core of src/race_game.c (Race Game v4.0 for     *)
(* Flipper Zero): the RaceGameState struct, game_tick and the helpers it   *)
(* calls, game_init, save_high_score and the key handling of the event     *)
(* loop in race_game_app.                                                  *)
(*                                                                         *)
(* The variable s is the RaceGameState struct. What is left out of it:     *)
(*   - scenery[] (lines 538-544, 709-717): drawn only, never read by the   *)
(*     simulation;                                                         *)
(*   - x, y, dx, dy of a particle: drawn only; a particle is its life;     *)
(*   - lane, y and type of a slot whose alive flag is false: every loop    *)
(*     of the source tests alive before it reads a slot and every spawn    *)
(*     assigns all the fields, so an inactive slot is the one value Dead.  *)
(* s.timer is the FuriTimer that s->timer points to: whether it runs and   *)
(* its period.                                                             *)
(*                                                                         *)
(* Events are modelled where the event loop handles them (lines 821-884): *)
(* one action per dequeued event, run to completion.  rand() is an input:  *)
(* each draw is chosen from the values the expression rand() % n can take. *)
(* Spec hands the loop any event at any time; QueueSpec adds the message   *)
(* queue between the two callbacks and the loop, so that an event is       *)
(* handled in the state the session has when it is dequeued, which may     *)
(* differ from the state it was put in.                                    *)
(***************************************************************************)
EXTENDS Integers, Sequences, FiniteSets, TLC

\* ---- Layout (lines 17-33) ----------------------------------------------
ROAD_LEFT == 10
ROAD_RIGHT == 53
ROAD_WIDTH == ROAD_RIGHT - ROAD_LEFT
LANE_COUNT == 3
LANE_WIDTH == ROAD_WIDTH \div LANE_COUNT
SCREEN_H == 128
CAR_W == 10
CAR_H == 13
PLAYER_Y == 105
MAX_OBS == 5
MAX_COINS == 3
MAX_POWERUPS == 2
MAX_PARTICLES == 12
INITIAL_LIVES == 3
MAX_LIVES == 5
DASH_TOTAL == 16

\* ---- Enumerations (lines 41-44) ----------------------------------------
StateMenu == "Menu"
StatePlaying == "Playing"
StateGameOver == "GameOver"
ObsMoto == 0
ObsSedan == 1
ObsTruck == 2
PwShield == 0
PwMagnet == 1
PwFuel == 2
DiffEasy == 0
DiffNormal == 1
DiffHard == 2

\* ---- Integer widths of the struct fields (lines 52-77) ------------------
\* uint8_t and uint16_t fields wrap at these moduli.  score and tick_count
\* are uint32_t: they wrap at 2^32, which no behaviour within the bounds of
\* this model approaches, so their arithmetic is written without a modulus.
U8 == 256
U16 == 65536

\* ---- Difficulty settings (lines 83-85), indexed by difficulty + 1 -------
diff_speed == <<140, 120, 90>>
diff_min_speed == <<70, 50, 35>>
diff_spawn == <<15, 12, 9>>

\* ---- Timed effects and awards (literals of the source) ------------------
INVINCIBLE_TICKS == 20
SHIELD_TICKS == 50
MAGNET_TICKS == 60
COMBO_DISPLAY_TICKS == 15
COIN_POINTS == 25
OBSTACLE_POINTS == 10
LEVEL_SCORE == 200
MAX_LEVEL == 9
SPEED_STEP == 8
COIN_CADENCE == 18
POWERUP_CADENCE == 60
MAGNET_RANGE == 30
MAGNET_STEP == 4
OBS_SPAWN_Y == -18
ITEM_SPAWN_Y == -12
ITEM_SIZE == 8
MENU_ITEMS == 4

Keys == {"Back", "Ok", "Up", "Down", "Left", "Right"}

\* An inactive pool slot.
Dead == [alive |-> FALSE]

Abs(x) == IF x < 0 THEN -x ELSE x

\* ---- Helpers (lines 132-137) --------------------------------------------
lane_cx(lane) == ROAD_LEFT + LANE_WIDTH \div 2 + lane * LANE_WIDTH
car_lx(lane) == lane_cx(lane) - CAR_W \div 2

\* Capacity of the message queue (line 807).
QUEUE_CAP == 8

VARIABLES s, running, ev, ticks_left, keys_left, queue

vars == <<s, running, ev, ticks_left, keys_left, queue>>

\* ---- High score (lines 100-110) -----------------------------------------
\* The file write is the persistence collaborator; s.high_score is the value
\* written.
\* A variant that writes the score whether or not it beats the record; the
\* invariant HighScoreOnlyAtGameOver must tell it from save_high_score.
save_high_score_unguarded(g) == [g EXCEPT !.high_score = g.score]

save_high_score(g) ==
    IF g.score <= g.high_score THEN g
    ELSE [g EXCEPT !.high_score = g.score]

\* ---- Particles (lines 141-159) ------------------------------------------
\* lives[i] is the value 8 + rand() % 5 drawn for particle i.
spawn_particles(g, lives) ==
    [g EXCEPT !.particles = [i \in 1..MAX_PARTICLES |-> lives[i]]]

update_particles(g) ==
    [g EXCEPT !.particles =
        [i \in 1..MAX_PARTICLES |->
            IF g.particles[i] > 0 THEN g.particles[i] - 1 ELSE g.particles[i]]]

\* A variant of game_init without the loop of line 561: the obstacles of the
\* previous episode stay. The invariant StartResetsEpisode must tell it from
\* game_init.
game_init_keeps_obstacles(g) ==
    [g EXCEPT !.state = StatePlaying,
              !.player_lane = 1,
              !.score = 0,
              !.level = 0,
              !.lives = INITIAL_LIVES,
              !.speed = diff_speed[g.difficulty + 1],
              !.tick_count = 0,
              !.road_scroll = 0,
              !.invincible_ticks = 0,
              !.shield_ticks = 0,
              !.magnet_ticks = 0,
              !.combo = 0,
              !.combo_display = 0,
              !.coins = [i \in 1..MAX_COINS |-> Dead],
              !.powerups = [i \in 1..MAX_POWERUPS |-> Dead],
              !.particles = [i \in 1..MAX_PARTICLES |-> 0],
              !.timer = [running |-> TRUE, period |-> diff_speed[g.difficulty + 1]]]

\* ---- Init (lines 546-568) -----------------------------------------------
game_init(g) ==
    [g EXCEPT !.state = StatePlaying,
              !.player_lane = 1,
              !.score = 0,
              !.level = 0,
              !.lives = INITIAL_LIVES,
              !.speed = diff_speed[g.difficulty + 1],
              !.tick_count = 0,
              !.road_scroll = 0,
              !.invincible_ticks = 0,
              !.shield_ticks = 0,
              !.magnet_ticks = 0,
              !.combo = 0,
              !.combo_display = 0,
              !.obstacles = [i \in 1..MAX_OBS |-> Dead],
              !.coins = [i \in 1..MAX_COINS |-> Dead],
              !.powerups = [i \in 1..MAX_POWERUPS |-> Dead],
              !.particles = [i \in 1..MAX_PARTICLES |-> 0],
              !.timer = [running |-> TRUE, period |-> diff_speed[g.difficulty + 1]]]

\* ---- Collision (lines 572-593) ------------------------------------------
\* The hitbox of an obstacle: left edge, width, height.
\* A variant of lines 577-579 that leaves out the offset of the truck's
\* box. The invariant WideHitboxTwoCarWidths must tell it from obs_ox.
obs_ox_no_offset(o) ==
    IF o.type = ObsMoto THEN car_lx(o.lane) + 2 ELSE car_lx(o.lane)

obs_ox(o) ==
    IF o.type = ObsTruck THEN car_lx(o.lane) - 5
    ELSE IF o.type = ObsMoto THEN car_lx(o.lane) + 2
    ELSE car_lx(o.lane)

obs_ow(o) ==
    IF o.type = ObsTruck THEN 20
    ELSE IF o.type = ObsMoto THEN 6
    ELSE CAR_W

obs_oh(o) ==
    IF o.type = ObsTruck THEN 16 ELSE IF o.type = ObsMoto THEN 10 ELSE 12

\* The overlap test of lines 588-589 for one active obstacle.
obs_overlap(px, o) ==
    /\ px < obs_ox(o) + obs_ow(o)
    /\ px + CAR_W > obs_ox(o)
    /\ PLAYER_Y < o.y + obs_oh(o)
    /\ PLAYER_Y + CAR_H > o.y

\* Variant: an obstacle counts only when it is in the player's lane.
check_collision_same_lane_only(g) ==
    \E i \in 1..MAX_OBS :
        /\ g.obstacles[i].alive
        /\ g.obstacles[i].lane = g.player_lane
        /\ obs_overlap(car_lx(g.player_lane), g.obstacles[i])

check_collision(g) ==
    \E i \in 1..MAX_OBS :
        /\ g.obstacles[i].alive
        /\ obs_overlap(car_lx(g.player_lane), g.obstacles[i])

\* ---- Coin / power-up collection (lines 597-645) -------------------------
\* The 8 x 8 overlap test of lines 605-606 and 628-629.
item_touch(px, it) ==
    /\ px < car_lx(it.lane) + ITEM_SIZE
    /\ px + CAR_W > car_lx(it.lane)
    /\ PLAYER_Y < it.y + ITEM_SIZE
    /\ PLAYER_Y + CAR_H > it.y

magnet_pull(g, c) ==
    g.magnet_ticks > 0 /\ Abs(c.y - PLAYER_Y) < MAGNET_RANGE

\* Lines 610-612: the coin moves toward the player.
pull_coin(g, c) ==
    [c EXCEPT !.y = IF c.y < PLAYER_Y THEN c.y + MAGNET_STEP ELSE c.y - MAGNET_STEP,
              !.lane = IF c.lane < g.player_lane THEN c.lane + 1
                       ELSE IF c.lane > g.player_lane THEN c.lane - 1
                       ELSE c.lane]

\* Lines 618-619: the award for a coin, from the combo after its increment.
coin_points(combo) == COIN_POINTS * (IF combo > 1 THEN combo ELSE 1)

\* Lines 615-619: coin slot i is collected.
collect_coin(g, i) ==
    LET combo == (g.combo + 1) % U8
    IN [g EXCEPT !.coins[i] = Dead,
                 !.combo = combo,
                 !.combo_display = COMBO_DISPLAY_TICKS,
                 !.score = g.score + coin_points(combo)]

\* A variant of the loop body without the continue of line 613: a coin
\* pulled by the magnet is collected in the same iteration. The invariant
\* PulledCoinStaysOnTrack must tell it from coin_step.
coin_step_no_continue(g, i) ==
    LET c == g.coins[i]
        touch == item_touch(car_lx(g.player_lane), c)
        pulled == IF magnet_pull(g, c) /\ ~touch
                  THEN [g EXCEPT !.coins[i] = pull_coin(g, c)] ELSE g
    IN IF ~c.alive THEN g
       ELSE IF touch \/ magnet_pull(g, c) THEN collect_coin(pulled, i)
       ELSE g

\* One iteration of the loop of lines 601-622, for coin slot i.
coin_step(g, i) ==
    LET c == g.coins[i]
        touch == item_touch(car_lx(g.player_lane), c)
    IN IF ~c.alive THEN g
       ELSE IF touch \/ magnet_pull(g, c)
            THEN IF magnet_pull(g, c) /\ ~touch
                 THEN [g EXCEPT !.coins[i] = pull_coin(g, c)]
                 ELSE collect_coin(g, i)
            ELSE g

\* A variant without the test of line 640: fuel always adds a life. The
\* invariant LivesInRange must tell it from apply_powerup.
apply_powerup_uncapped(g, type) ==
    IF type = PwShield THEN [g EXCEPT !.shield_ticks = SHIELD_TICKS]
    ELSE IF type = PwMagnet THEN [g EXCEPT !.magnet_ticks = MAGNET_TICKS]
    ELSE [g EXCEPT !.lives = (g.lives + 1) % U8]

\* Lines 632-642: the effect of a power-up of the given kind.
apply_powerup(g, type) ==
    IF type = PwShield THEN [g EXCEPT !.shield_ticks = SHIELD_TICKS]
    ELSE IF type = PwMagnet THEN [g EXCEPT !.magnet_ticks = MAGNET_TICKS]
    ELSE IF g.lives < MAX_LIVES THEN [g EXCEPT !.lives = g.lives + 1]
    ELSE g

\* Variant: a power-up pickup also awards the points of a coin.
powerup_step_with_points(g, i) ==
    LET p == g.powerups[i]
    IN IF ~p.alive THEN g
       ELSE IF item_touch(car_lx(g.player_lane), p)
            THEN apply_powerup([g EXCEPT !.powerups[i] = Dead,
                                         !.score = @ + COIN_POINTS], p.type)
            ELSE g

\* One iteration of the loop of lines 625-644, for power-up slot i.
powerup_step(g, i) ==
    LET p == g.powerups[i]
    IN IF ~p.alive THEN g
       ELSE IF item_touch(car_lx(g.player_lane), p)
            THEN apply_powerup([g EXCEPT !.powerups[i] = Dead], p.type)
            ELSE g

check_collections(g) ==
    LET c1 == coin_step(g, 1)
        c2 == coin_step(c1, 2)
        c3 == coin_step(c2, 3)
        p1 == powerup_step(c3, 1)
    IN powerup_step(p1, 2)

\* ---- Spawning (lines 649-691) -------------------------------------------
\* Variant: the loops of lines 650, 671 and 682 run from the last slot down.
first_free_from_last(pool) ==
    IF \E i \in DOMAIN pool : ~pool[i].alive
    THEN CHOOSE i \in DOMAIN pool :
            /\ ~pool[i].alive
            /\ \A j \in DOMAIN pool : j > i => pool[j].alive
    ELSE 0

\* The first slot of a pool whose alive flag is false, 0 when there is none.
first_free(pool) ==
    IF \E i \in DOMAIN pool : ~pool[i].alive
    THEN CHOOSE i \in DOMAIN pool :
            /\ ~pool[i].alive
            /\ \A j \in DOMAIN pool : j < i => pool[j].alive
    ELSE 0

\* A variant of spawn_obstacle without the level test of line 657: the
\* draw alone decides. The invariant WideOnlyAtLevelMultiple must tell it
\* from spawn_obstacle.
spawn_obstacle_any_level(g, lane, r4, r3) ==
    LET i == first_free(g.obstacles)
        o == IF r4 = 0
             THEN [alive |-> TRUE, y |-> OBS_SPAWN_Y, lane |-> 1, type |-> ObsTruck]
             ELSE IF r3 = 0
                  THEN [alive |-> TRUE, y |-> OBS_SPAWN_Y, lane |-> lane, type |-> ObsMoto]
                  ELSE [alive |-> TRUE, y |-> OBS_SPAWN_Y, lane |-> lane, type |-> ObsSedan]
    IN IF i = 0 THEN g ELSE [g EXCEPT !.obstacles[i] = o]

\* lane = rand() % LANE_COUNT, r4 = rand() % 4 (the source draws it only
\* when the level test holds; here it is ignored when the test fails),
\* r3 = rand() % 3.
spawn_obstacle(g, lane, r4, r3) ==
    LET i == first_free(g.obstacles)
        boss == g.level > 0 /\ g.level % 5 = 0 /\ r4 = 0
        o == IF boss THEN [alive |-> TRUE, y |-> OBS_SPAWN_Y, lane |-> 1, type |-> ObsTruck]
             ELSE IF r3 = 0
                  THEN [alive |-> TRUE, y |-> OBS_SPAWN_Y, lane |-> lane, type |-> ObsMoto]
                  ELSE [alive |-> TRUE, y |-> OBS_SPAWN_Y, lane |-> lane, type |-> ObsSedan]
    IN IF i = 0 THEN g ELSE [g EXCEPT !.obstacles[i] = o]

spawn_coin(g, lane) ==
    LET i == first_free(g.coins)
    IN IF i = 0 THEN g
       ELSE [g EXCEPT !.coins[i] = [alive |-> TRUE, y |-> ITEM_SPAWN_Y, lane |-> lane]]

spawn_powerup(g, lane, type) ==
    LET i == first_free(g.powerups)
    IN IF i = 0 THEN g
       ELSE [g EXCEPT !.powerups[i] =
                [alive |-> TRUE, y |-> ITEM_SPAWN_Y, lane |-> lane, type |-> type]]

\* ---- Game tick (lines 695-788) ------------------------------------------
\* Lines 698-705: the tick counter, the road phase and the timed counters.
tick_decay(g) ==
    [g EXCEPT !.tick_count = g.tick_count + 1,
              !.road_scroll = IF g.road_scroll + 3 >= DASH_TOTAL
                              THEN g.road_scroll + 3 - DASH_TOTAL
                              ELSE g.road_scroll + 3,
              !.invincible_ticks = IF @ > 0 THEN @ - 1 ELSE @,
              !.shield_ticks = IF @ > 0 THEN @ - 1 ELSE @,
              !.magnet_ticks = IF @ > 0 THEN @ - 1 ELSE @,
              !.combo_display = IF @ > 0 THEN @ - 1 ELSE @]

\* Line 720: the displacement per tick.
tick_spd(g) == 3 + (g.level \div 2)

\* Lines 723-725: the displacement of one obstacle.
obs_move(g, o) ==
    tick_spd(g) + (IF o.type = ObsMoto THEN 1 ELSE 0) - (IF o.type = ObsTruck THEN 1 ELSE 0)

\* Lines 726-731 for one active obstacle: whether it leaves the track.
obs_retires(g, o) ==
    o.y + obs_move(g, o) > SCREEN_H + (IF o.type = ObsTruck THEN 16 ELSE 12)

\* Lines 721-732.
move_obstacles(g) ==
    LET retired == {i \in 1..MAX_OBS : g.obstacles[i].alive /\ obs_retires(g, g.obstacles[i])}
    IN [g EXCEPT !.obstacles =
            [i \in 1..MAX_OBS |->
                IF ~g.obstacles[i].alive THEN g.obstacles[i]
                ELSE IF i \in retired THEN Dead
                ELSE [g.obstacles[i] EXCEPT !.y = @ + obs_move(g, g.obstacles[i])]],
                 !.score = g.score + OBSTACLE_POINTS * Cardinality(retired)]

\* Lines 735-746 for one pool of coins or power-ups.
move_items(g, pool) ==
    [i \in DOMAIN pool |->
        IF ~pool[i].alive THEN pool[i]
        ELSE IF pool[i].y + tick_spd(g) > SCREEN_H THEN Dead
        ELSE [pool[i] EXCEPT !.y = @ + tick_spd(g)]]

\* A variant of lines 748-752 that tests the obstacle cadence of normal
\* difficulty whatever the difficulty is. The invariant SpawnCadence must
\* tell it from tick_spawn.
tick_spawn_one_cadence(g, rnd) ==
    LET si == diff_spawn[DiffNormal + 1]
        a == IF g.tick_count % si = 0
             THEN spawn_obstacle(g, rnd.obs_lane, rnd.obs_r4, rnd.obs_r3) ELSE g
        b == IF a.tick_count % COIN_CADENCE = 0 THEN spawn_coin(a, rnd.coin_lane) ELSE a
    IN IF b.tick_count % POWERUP_CADENCE = 0
       THEN spawn_powerup(b, rnd.pw_lane, rnd.pw_type) ELSE b

\* Lines 748-752.
tick_spawn(g, rnd) ==
    LET si == diff_spawn[g.difficulty + 1]
        a == IF g.tick_count % si = 0
             THEN spawn_obstacle(g, rnd.obs_lane, rnd.obs_r4, rnd.obs_r3) ELSE g
        b == IF a.tick_count % COIN_CADENCE = 0 THEN spawn_coin(a, rnd.coin_lane) ELSE a
    IN IF b.tick_count % POWERUP_CADENCE = 0
       THEN spawn_powerup(b, rnd.pw_lane, rnd.pw_type) ELSE b

\* A variant of lines 698-755 in which the spawn stage runs before the
\* motion stage. The invariant TickOrderDecayFirst must tell it from
\* tick_before_collision.
tick_before_collision_spawn_first(g, rnd) ==
    LET a == tick_spawn(update_particles(tick_decay(g)), rnd)
        b == move_obstacles(a)
        c == [b EXCEPT !.coins = move_items(b, b.coins),
                       !.powerups = move_items(b, b.powerups)]
    IN check_collections(c)

\* Lines 698-755: the session when the tick reaches the collision test.
tick_before_collision(g, rnd) ==
    LET a == update_particles(tick_decay(g))
        b == move_obstacles(a)
        c == [b EXCEPT !.coins = move_items(b, b.coins),
                       !.powerups = move_items(b, b.powerups)]
    IN check_collections(tick_spawn(c, rnd))

\* A variant of line 758 without the shield test. The invariant
\* ProtectedTickHasNoCollisionEffect must tell it from collision_registered.
collision_registered_ignoring_shield(g) ==
    g.invincible_ticks = 0 /\ check_collision(g)

\* Line 758: whether the tick registers a collision.
collision_registered(g) ==
    g.invincible_ticks = 0 /\ g.shield_ticks = 0 /\ check_collision(g)

\* A variant of lines 776-787 that follows the computed level whenever it
\* differs from the current one (!= in place of > at line 779). The
\* invariant LevelMonotone must tell it from tick_level_up.
tick_level_up_on_change(g) ==
    LET raw == (g.score \div LEVEL_SCORE) % U8
        nl == IF raw > MAX_LEVEL THEN MAX_LEVEL ELSE raw
        spd == (diff_speed[g.difficulty + 1] - nl * SPEED_STEP) % U16
        min_spd == diff_min_speed[g.difficulty + 1]
        speed == IF spd < min_spd THEN min_spd ELSE spd
    IN IF nl # g.level
       THEN [g EXCEPT !.level = nl,
                      !.speed = speed,
                      !.timer = [running |-> TRUE, period |-> speed]]
       ELSE g

\* Variant: the level-up stops the timer (line 784) and does not start it
\* again.
tick_level_up_timer_left_stopped(g) ==
    LET raw == (g.score \div LEVEL_SCORE) % U8
        nl == IF raw > MAX_LEVEL THEN MAX_LEVEL ELSE raw
        spd == (diff_speed[g.difficulty + 1] - nl * SPEED_STEP) % U16
        min_spd == diff_min_speed[g.difficulty + 1]
        speed == IF spd < min_spd THEN min_spd ELSE spd
    IN IF nl > g.level
       THEN [g EXCEPT !.level = nl,
                      !.speed = speed,
                      !.timer = [running |-> FALSE, period |-> g.timer.period]]
       ELSE g

\* Variant: the new interval is not raised to the minimum (line 783).
tick_level_up_no_floor(g) ==
    LET raw == (g.score \div LEVEL_SCORE) % U8
        nl == IF raw > MAX_LEVEL THEN MAX_LEVEL ELSE raw
        spd == (diff_speed[g.difficulty + 1] - nl * SPEED_STEP) % U16
    IN IF nl > g.level
       THEN [g EXCEPT !.level = nl,
                      !.speed = spd,
                      !.timer = [running |-> TRUE, period |-> spd]]
       ELSE g

\* Lines 776-787.
tick_level_up(g) ==
    LET raw == (g.score \div LEVEL_SCORE) % U8
        nl == IF raw > MAX_LEVEL THEN MAX_LEVEL ELSE raw
        spd == (diff_speed[g.difficulty + 1] - nl * SPEED_STEP) % U16
        min_spd == diff_min_speed[g.difficulty + 1]
        speed == IF spd < min_spd THEN min_spd ELSE spd
    IN IF nl > g.level
       THEN [g EXCEPT !.level = nl,
                      !.speed = speed,
                      !.timer = [running |-> TRUE, period |-> speed]]
       ELSE g

\* Variant: a collision gives 5 ticks of invincibility.
tick_hit_short_window(g, rnd) ==
    LET a == spawn_particles([g EXCEPT !.lives = (g.lives - 1) % U8, !.combo = 0],
                             rnd.burst)
    IN IF a.lives = 0
       THEN save_high_score([a EXCEPT !.state = StateGameOver, !.timer.running = FALSE])
       ELSE [a EXCEPT !.invincible_ticks = 5]

\* Lines 758-774: a registered collision.
tick_hit(g, rnd) ==
    LET a == spawn_particles([g EXCEPT !.lives = (g.lives - 1) % U8, !.combo = 0],
                             rnd.burst)
    IN IF a.lives = 0
       THEN save_high_score([a EXCEPT !.state = StateGameOver, !.timer.running = FALSE])
       ELSE [a EXCEPT !.invincible_ticks = INVINCIBLE_TICKS]

\* Variant: the tick counter advances before the state test of line 696.
game_tick_counts_first(g, rnd) ==
    IF g.state # StatePlaying THEN [g EXCEPT !.tick_count = @ + 1]
    ELSE LET e == tick_before_collision(g, rnd)
         IN IF collision_registered(e)
            THEN LET h == tick_hit(e, rnd)
                 IN IF h.state = StateGameOver THEN h ELSE tick_level_up(h)
            ELSE tick_level_up(e)

game_tick(g, rnd) ==
    IF g.state # StatePlaying THEN g
    ELSE LET e == tick_before_collision(g, rnd)
         IN IF collision_registered(e)
            THEN LET h == tick_hit(e, rnd)
                 IN IF h.state = StateGameOver THEN h ELSE tick_level_up(h)
            ELSE tick_level_up(e)

\* ---- Key handling (lines 824-878) ---------------------------------------
\* A variant of the switch in which OK on the game-over screen starts a new
\* episode at once. The invariant OnlyFourTransitions must tell it from
\* handle_key.
handle_key_restart(g, key) ==
    CASE key = "Back" ->
            IF g.state = StatePlaying
            THEN [g EXCEPT !.timer.running = FALSE, !.state = StateMenu]
            ELSE g
      [] key = "Ok" ->
            IF g.state = StateMenu
            THEN IF g.menu_idx = 0 THEN game_init(g)
                 ELSE IF g.menu_idx = 1 THEN [g EXCEPT !.sound_on = ~g.sound_on]
                 ELSE IF g.menu_idx = 2 THEN [g EXCEPT !.night_mode = ~g.night_mode]
                 ELSE IF g.menu_idx = 3
                      THEN [g EXCEPT !.difficulty = (g.difficulty + 1) % 3]
                 ELSE g
            ELSE IF g.state = StateGameOver THEN game_init(g)
            ELSE g
      [] key = "Up" ->
            IF g.state = StateMenu
            THEN [g EXCEPT !.menu_idx = IF g.menu_idx - 1 < 0 THEN 3 ELSE g.menu_idx - 1]
            ELSE g
      [] key = "Down" ->
            IF g.state = StateMenu
            THEN [g EXCEPT !.menu_idx = (g.menu_idx + 1) % MENU_ITEMS]
            ELSE g
      [] key = "Left" ->
            IF g.state = StatePlaying /\ g.player_lane > 0
            THEN [g EXCEPT !.player_lane = g.player_lane - 1]
            ELSE g
      [] key = "Right" ->
            IF g.state = StatePlaying /\ g.player_lane < LANE_COUNT - 1
            THEN [g EXCEPT !.player_lane = g.player_lane + 1]
            ELSE g
      [] OTHER -> g

\* A variant of the switch in which Right on the game-over screen toggles
\* night mode. The invariant PreferencesOnlyFromMenu must tell it from
\* handle_key.
handle_key_side_toggle(g, key) ==
    CASE key = "Back" ->
            IF g.state = StatePlaying
            THEN [g EXCEPT !.timer.running = FALSE, !.state = StateMenu]
            ELSE g
      [] key = "Ok" ->
            IF g.state = StateMenu
            THEN IF g.menu_idx = 0 THEN game_init(g)
                 ELSE IF g.menu_idx = 1 THEN [g EXCEPT !.sound_on = ~g.sound_on]
                 ELSE IF g.menu_idx = 2 THEN [g EXCEPT !.night_mode = ~g.night_mode]
                 ELSE IF g.menu_idx = 3
                      THEN [g EXCEPT !.difficulty = (g.difficulty + 1) % 3]
                 ELSE g
            ELSE IF g.state = StateGameOver THEN [g EXCEPT !.state = StateMenu]
            ELSE g
      [] key = "Up" ->
            IF g.state = StateMenu
            THEN [g EXCEPT !.menu_idx = IF g.menu_idx - 1 < 0 THEN 3 ELSE g.menu_idx - 1]
            ELSE g
      [] key = "Down" ->
            IF g.state = StateMenu
            THEN [g EXCEPT !.menu_idx = (g.menu_idx + 1) % MENU_ITEMS]
            ELSE g
      [] key = "Left" ->
            IF g.state = StatePlaying /\ g.player_lane > 0
            THEN [g EXCEPT !.player_lane = g.player_lane - 1]
            ELSE g
      [] key = "Right" ->
            IF g.state = StatePlaying /\ g.player_lane < LANE_COUNT - 1
            THEN [g EXCEPT !.player_lane = g.player_lane + 1]
            ELSE IF g.state = StateGameOver THEN [g EXCEPT !.night_mode = ~g.night_mode]
            ELSE g
      [] OTHER -> g

\* Variant: Left and Right without the lane tests of lines 862 and 869.
handle_key_lane_unguarded(g, key) ==
    CASE key = "Back" ->
            IF g.state = StatePlaying
            THEN [g EXCEPT !.timer.running = FALSE, !.state = StateMenu]
            ELSE g
      [] key = "Ok" ->
            IF g.state = StateMenu
            THEN IF g.menu_idx = 0 THEN game_init(g)
                 ELSE IF g.menu_idx = 1 THEN [g EXCEPT !.sound_on = ~g.sound_on]
                 ELSE IF g.menu_idx = 2 THEN [g EXCEPT !.night_mode = ~g.night_mode]
                 ELSE IF g.menu_idx = 3
                      THEN [g EXCEPT !.difficulty = (g.difficulty + 1) % 3]
                 ELSE g
            ELSE IF g.state = StateGameOver THEN [g EXCEPT !.state = StateMenu]
            ELSE g
      [] key = "Up" ->
            IF g.state = StateMenu
            THEN [g EXCEPT !.menu_idx = IF g.menu_idx - 1 < 0 THEN 3 ELSE g.menu_idx - 1]
            ELSE g
      [] key = "Down" ->
            IF g.state = StateMenu
            THEN [g EXCEPT !.menu_idx = (g.menu_idx + 1) % MENU_ITEMS]
            ELSE g
      [] key = "Left" ->
            IF g.state = StatePlaying
            THEN [g EXCEPT !.player_lane = (g.player_lane - 1) % U8]
            ELSE g
      [] key = "Right" ->
            IF g.state = StatePlaying
            THEN [g EXCEPT !.player_lane = (g.player_lane + 1) % U8]
            ELSE g
      [] OTHER -> g

\* The switch of lines 826-877 on a pressed or repeated key.
handle_key(g, key) ==
    CASE key = "Back" ->
            IF g.state = StatePlaying
            THEN [g EXCEPT !.timer.running = FALSE, !.state = StateMenu]
            ELSE g
      [] key = "Ok" ->
            IF g.state = StateMenu
            THEN IF g.menu_idx = 0 THEN game_init(g)
                 ELSE IF g.menu_idx = 1 THEN [g EXCEPT !.sound_on = ~g.sound_on]
                 ELSE IF g.menu_idx = 2 THEN [g EXCEPT !.night_mode = ~g.night_mode]
                 ELSE IF g.menu_idx = 3
                      THEN [g EXCEPT !.difficulty = (g.difficulty + 1) % 3]
                 ELSE g
            ELSE IF g.state = StateGameOver THEN [g EXCEPT !.state = StateMenu]
            ELSE g
      [] key = "Up" ->
            IF g.state = StateMenu
            THEN [g EXCEPT !.menu_idx = IF g.menu_idx - 1 < 0 THEN 3 ELSE g.menu_idx - 1]
            ELSE g
      [] key = "Down" ->
            IF g.state = StateMenu
            THEN [g EXCEPT !.menu_idx = (g.menu_idx + 1) % MENU_ITEMS]
            ELSE g
      [] key = "Left" ->
            IF g.state = StatePlaying /\ g.player_lane > 0
            THEN [g EXCEPT !.player_lane = g.player_lane - 1]
            ELSE g
      [] key = "Right" ->
            IF g.state = StatePlaying /\ g.player_lane < LANE_COUNT - 1
            THEN [g EXCEPT !.player_lane = g.player_lane + 1]
            ELSE g
      [] OTHER -> g

\* A variant of lines 828-833 in which Back ends the event loop only from
\* the menu. The invariant GameOverOkOrExit must tell it from
\* exit_requested.
exit_requested_in_menu_only(g, key) == key = "Back" /\ g.state = StateMenu

\* A variant in which Back ends the event loop only from the game-over
\* screen. The invariant BackInMenuOnlyExits must tell it from
\* exit_requested.
exit_requested_in_game_over_only(g, key) == key = "Back" /\ g.state = StateGameOver

\* Line 833: Back outside Playing ends the event loop.
exit_requested(g, key) == key = "Back" /\ g.state # StatePlaying

\* ---- Bounds -------------------------------------------------------------
\* Simulation ticks and key events handled in one behaviour that starts
\* from the constructed session.
MaxTicks == 13
MaxKeys == 4
\* The same, for a behaviour that starts in the middle of an episode.
EdgeTicks == 5
EdgeKeys == 3
\* ... and in one that starts two ticks before a tick on all three spawn
\* cadences, where the draws branch most.
SpawnTicks == 3
SpawnKeys == 1
QueueTicks == 3
QueueKeys == 3
\* Ticks and keys of the start that follows an obstacle out of the player's
\* row after its collision.
PassTicks == 11
PassKeys == 1

\* The high score load_high_score reads (lines 89-98): 0 without a file.
HighScores == {0, 500}

\* rand() % 3 and rand() % 4 are only compared with 0: 1 stands for every
\* other value.
Draw3 == {0, 1}
Draw4 == {0, 1}
Lanes == 0..(LANE_COUNT - 1)
PowerUpTypes == {PwShield, PwMagnet, PwFuel}

\* The lives 8 + rand() % 5 of the particles of a burst (line 147): the
\* shortest and the longest burst.
BurstLives == {[i \in 1..MAX_PARTICLES |-> 8], [i \in 1..MAX_PARTICLES |-> 12]}
NoBurst == [i \in 1..MAX_PARTICLES |-> 8]

\* ---- History of the last event ------------------------------------------
\* The fields of the session, before an event, that the properties compare
\* with the session after it.
Digest(g) ==
    [state |-> g.state, score |-> g.score, high_score |-> g.high_score,
     level |-> g.level, speed |-> g.speed, lives |-> g.lives, combo |-> g.combo,
     player_lane |-> g.player_lane, menu_idx |-> g.menu_idx,
     sound_on |-> g.sound_on, night_mode |-> g.night_mode,
     difficulty |-> g.difficulty]

\* What coin slot i went through in check_collections: the slot and the
\* counters before and after its iteration of the loop of lines 601-622.
CoinTrace(before, after, i) ==
    [slot |-> before.coins[i],
     touch |-> before.coins[i].alive
               /\ item_touch(car_lx(before.player_lane), before.coins[i]),
     pull |-> before.coins[i].alive /\ magnet_pull(before, before.coins[i]),
     now |-> after.coins[i],
     combo0 |-> before.combo, combo1 |-> after.combo,
     score0 |-> before.score, score1 |-> after.score,
     display1 |-> after.combo_display]

\* since: the ticks run since the episode's last registered collision,
\* counted up to NoHit (no collision yet, or more than INVINCIBLE_TICKS ago).
NoHit == INVINCIBLE_TICKS + 1

\* What a spawn stage did to a pool (lines 748-752): whether the pool had a
\* free slot when the stage was reached, which slots were inactive then,
\* which slots the stage changed and what it left in them.
SpawnTrace(before, after) ==
    [free |-> \E i \in DOMAIN before : ~before[i].alive,
     inactive |-> {i \in DOMAIN before : ~before[i].alive},
     changed |-> {i \in DOMAIN before : after[i] # before[i]},
     new |-> {after[i] : i \in {j \in DOMAIN before : after[j] # before[j]}}]

NoSpawn == [free |-> FALSE, inactive |-> {}, changed |-> {}, new |-> {}]

\* The record of an event that ran no simulation: the session before it.
\* kept tells whether the handler left the session as it was.
EvOf(type, key, g, since) ==
    [type |-> type, key |-> key, pre |-> Digest(g), ran |-> FALSE, kept |-> TRUE,
     pre_since |-> since, since |-> since,
     hit |-> FALSE, overlap |-> FALSE, burst |-> FALSE,
     mid_inv |-> 0, mid_shield |-> 0, mid_lives |-> g.lives, mid_combo |-> g.combo,
     coins |-> <<>>, retired |-> 0, culprits |-> {}, again |-> FALSE,
     obs |-> NoSpawn, coin |-> NoSpawn, pw |-> NoSpawn]

\* The record of a tick: besides the session before it, the timers, lives
\* and combo when line 758 is evaluated, whether the obstacles overlap the
\* player there, whether the tick registered a collision and whether it
\* rewrote the particles, what each coin slot went through, how many
\* obstacles the motion stage retired and what the three spawn stages did.
tick_ev(g, rnd, since) ==
    IF g.state # StatePlaying
    THEN [EvOf("tick", "None", g, since) EXCEPT !.kept = (game_tick(g, rnd) = g)]
    ELSE LET a == update_particles(tick_decay(g))
             b == move_obstacles(a)
             c == [b EXCEPT !.coins = move_items(b, b.coins),
                            !.powerups = move_items(b, b.powerups)]
             d == tick_spawn(c, rnd)
             c1 == coin_step(d, 1)
             c2 == coin_step(c1, 2)
             c3 == coin_step(c2, 3)
             e == powerup_step(powerup_step(c3, 1), 2)
             f == game_tick(g, rnd)
             hit == collision_registered(e)
         IN [type |-> "tick", key |-> "None", pre |-> Digest(g), ran |-> TRUE,
             kept |-> (f = g),
             pre_since |-> since,
             since |-> IF hit THEN 0 ELSE IF since < NoHit THEN since + 1 ELSE NoHit,
             hit |-> hit,
             overlap |-> check_collision(e),
             burst |-> f.particles # e.particles,
             mid_inv |-> e.invincible_ticks, mid_shield |-> e.shield_ticks,
             mid_lives |-> e.lives, mid_combo |-> e.combo,
             coins |-> <<CoinTrace(d, c1, 1), CoinTrace(c1, c2, 2), CoinTrace(c2, c3, 3)>>,
             retired |-> Cardinality({i \in 1..MAX_OBS :
                                        a.obstacles[i].alive /\ ~b.obstacles[i].alive}),
             culprits |-> {}, again |-> FALSE,
             obs |-> SpawnTrace(c.obstacles, d.obstacles),
             coin |-> SpawnTrace(c.coins, d.coins),
             pw |-> SpawnTrace(c.powerups, d.powerups)]

\* culprits: the obstacle slots that overlapped the player when the
\* episode's last collision was registered (lines 588-590, 758) and have
\* not been retired since (line 728). prev is the set before the tick.
Culprits(g, rnd, prev) ==
    IF g.state # StatePlaying THEN prev
    ELSE LET b == move_obstacles(update_particles(tick_decay(g)))
             e == tick_before_collision(g, rnd)
         IN IF collision_registered(e)
            THEN {i \in 1..MAX_OBS :
                    /\ e.obstacles[i].alive
                    /\ obs_overlap(car_lx(e.player_lane), e.obstacles[i])}
            ELSE {i \in prev : b.obstacles[i].alive}

\* again: the tick registered a collision with an obstacle that had
\* registered the collision before it.
CulpritAgain(g, rnd, prev) ==
    /\ g.state = StatePlaying
    /\ collision_registered(tick_before_collision(g, rnd))
    /\ \E i \in prev :
          /\ move_obstacles(update_particles(tick_decay(g))).obstacles[i].alive
          /\ i \in Culprits(g, rnd, prev)

\* A key event; START chosen in the menu begins an episode with no collision.
key_ev(g, key, since) ==
    [EvOf("key", key, g,
          IF key = "Ok" /\ g.state = StateMenu /\ g.menu_idx = 0 THEN NoHit ELSE since)
        EXCEPT !.kept = (handle_key(g, key) = g)]

\* ---- The session after construction (lines 796-808) ---------------------
Constructed(hs) ==
    [state |-> StateMenu, player_lane |-> 0, score |-> 0, high_score |-> hs,
     level |-> 0, lives |-> INITIAL_LIVES, speed |-> 0, tick_count |-> 0,
     road_scroll |-> 0, night_mode |-> FALSE, sound_on |-> TRUE, menu_idx |-> 0,
     difficulty |-> DiffNormal,
     invincible_ticks |-> 0, shield_ticks |-> 0, magnet_ticks |-> 0,
     combo |-> 0, combo_display |-> 0,
     obstacles |-> [i \in 1..MAX_OBS |-> Dead],
     coins |-> [i \in 1..MAX_COINS |-> Dead],
     powerups |-> [i \in 1..MAX_POWERUPS |-> Dead],
     particles |-> [i \in 1..MAX_PARTICLES |-> 0],
     timer |-> [running |-> FALSE, period |-> 0]]

InitEv(g, since) == EvOf("init", "None", g, since)

\* ---- Sessions in the middle of an episode -------------------------------
\* Each is the RaceGameState the source holds after the stated run from the
\* constructed session (START chosen in the menu, then the stated ticks and
\* keys): the values are those of the compiled game_tick on that run.
\* Tick 111 of a first episode on normal difficulty: every obstacle a sedan
\* in lane 1, the coins spawned at ticks 18 and 36 in lane 1 and the later
\* ones in lane 0; the player stays in lane 1 until tick 74 (collisions at
\* ticks 50 and 74), then moves to lane 0 and collects the coins of ticks 54
\* and 72.
LevelEdge ==
    [state |-> "Playing", player_lane |-> 0, score |-> 190, high_score |-> 0,
     level |-> 0, lives |-> 1, speed |-> 120, tick_count |-> 111, road_scroll |-> 13,
     night_mode |-> FALSE, sound_on |-> TRUE, menu_idx |-> 0, difficulty |-> 1,
     invincible_ticks |-> 0, shield_ticks |-> 0, magnet_ticks |-> 0,
     combo |-> 2, combo_display |-> 13,
     obstacles |-> <<[alive |-> TRUE, y |-> 99, lane |-> 1, type |-> 1],
         [alive |-> TRUE, y |-> 63, lane |-> 1, type |-> 1],
         [alive |-> TRUE, y |-> 27, lane |-> 1, type |-> 1],
         [alive |-> TRUE, y |-> -9, lane |-> 1, type |-> 1],
         [alive |-> TRUE, y |-> 135, lane |-> 1, type |-> 1]>>,
     coins |-> <<Dead, [alive |-> TRUE, y |-> 51, lane |-> 0],
         [alive |-> TRUE, y |-> -3, lane |-> 0]>>,
     powerups |-> <<Dead, Dead>>,
     particles |-> <<0, 0, 0, 0, 0, 0, 0, 0, 0, 0, 0, 0>>,
     timer |-> [running |-> TRUE, period |-> 120]]

\* Tick 96 of a first episode on normal difficulty: the player moves to
\* lane 0 at once; a shield power-up and a sedan spawn in lane 1 at tick 60,
\* everything else in lane 2.
ShieldEdge ==
    [state |-> "Playing", player_lane |-> 0, score |-> 30, high_score |-> 0,
     level |-> 0, lives |-> 3, speed |-> 120, tick_count |-> 96, road_scroll |-> 0,
     night_mode |-> FALSE, sound_on |-> TRUE, menu_idx |-> 0, difficulty |-> 1,
     invincible_ticks |-> 0, shield_ticks |-> 0, magnet_ticks |-> 0,
     combo |-> 0, combo_display |-> 0,
     obstacles |-> <<[alive |-> TRUE, y |-> 54, lane |-> 2, type |-> 1],
         [alive |-> TRUE, y |-> 18, lane |-> 2, type |-> 1],
         [alive |-> TRUE, y |-> -18, lane |-> 2, type |-> 1],
         [alive |-> TRUE, y |-> 126, lane |-> 2, type |-> 1],
         [alive |-> TRUE, y |-> 90, lane |-> 1, type |-> 1]>>,
     coins |-> <<[alive |-> TRUE, y |-> 60, lane |-> 2], [alive |-> TRUE, y |-> 6, lane |-> 2],
         [alive |-> TRUE, y |-> 114, lane |-> 2]>>,
     powerups |-> <<[alive |-> TRUE, y |-> 96, lane |-> 1, type |-> 0], Dead>>,
     particles |-> <<0, 0, 0, 0, 0, 0, 0, 0, 0, 0, 0, 0>>,
     timer |-> [running |-> TRUE, period |-> 120]]

\* Tick 215 of a first episode on normal difficulty: the player stays in
\* lane 1; refuel power-ups spawn in lane 1 (collected at ticks 97 and 157),
\* obstacles in lane 0, coins in lane 2.
FuelEdge ==
    [state |-> "Playing", player_lane |-> 1, score |-> 130, high_score |-> 0,
     level |-> 0, lives |-> 5, speed |-> 120, tick_count |-> 215, road_scroll |-> 5,
     night_mode |-> FALSE, sound_on |-> TRUE, menu_idx |-> 0, difficulty |-> 1,
     invincible_ticks |-> 0, shield_ticks |-> 0, magnet_ticks |-> 0,
     combo |-> 0, combo_display |-> 0,
     obstacles |-> <<[alive |-> TRUE, y |-> 51, lane |-> 0, type |-> 1],
         [alive |-> TRUE, y |-> 15, lane |-> 0, type |-> 1],
         Dead, [alive |-> TRUE, y |-> 123, lane |-> 0, type |-> 1],
         [alive |-> TRUE, y |-> 87, lane |-> 0, type |-> 1]>>,
     coins |-> <<[alive |-> TRUE, y |-> 93, lane |-> 2], [alive |-> TRUE, y |-> 39, lane |-> 2],
         Dead>>,
     powerups |-> <<[alive |-> TRUE, y |-> 93, lane |-> 1, type |-> 2], Dead>>,
     particles |-> <<0, 0, 0, 0, 0, 0, 0, 0, 0, 0, 0, 0>>,
     timer |-> [running |-> TRUE, period |-> 120]]

\* Tick 97 of a first episode on normal difficulty: the player stays in
\* lane 1 and has just collected the magnet spawned in lane 1 at tick 60;
\* obstacles in lane 0, coins in lane 2.
MagnetEdge ==
    [state |-> "Playing", player_lane |-> 1, score |-> 30, high_score |-> 0,
     level |-> 0, lives |-> 3, speed |-> 120, tick_count |-> 97, road_scroll |-> 3,
     night_mode |-> FALSE, sound_on |-> TRUE, menu_idx |-> 0, difficulty |-> 1,
     invincible_ticks |-> 0, shield_ticks |-> 0, magnet_ticks |-> 60,
     combo |-> 0, combo_display |-> 0,
     obstacles |-> <<[alive |-> TRUE, y |-> 57, lane |-> 0, type |-> 1],
         [alive |-> TRUE, y |-> 21, lane |-> 0, type |-> 1],
         [alive |-> TRUE, y |-> -15, lane |-> 0, type |-> 1],
         [alive |-> TRUE, y |-> 129, lane |-> 0, type |-> 1],
         [alive |-> TRUE, y |-> 93, lane |-> 0, type |-> 1]>>,
     coins |-> <<[alive |-> TRUE, y |-> 63, lane |-> 2], [alive |-> TRUE, y |-> 9, lane |-> 2],
         [alive |-> TRUE, y |-> 117, lane |-> 2]>>,
     powerups |-> <<Dead, Dead>>,
     particles |-> <<0, 0, 0, 0, 0, 0, 0, 0, 0, 0, 0, 0>>,
     timer |-> [running |-> TRUE, period |-> 120]]

\* Tick 72 of a first episode on normal difficulty: sedans in lane 1 at
\* ticks 12 and 36, everything else in lane 2; the player waits in lane 0 and
\* moves to lane 1 after tick 53, where tick 54 registers a collision.
GraceEdge ==
    [state |-> "Playing", player_lane |-> 1, score |-> 10, high_score |-> 0,
     level |-> 0, lives |-> 2, speed |-> 120, tick_count |-> 72, road_scroll |-> 8,
     night_mode |-> FALSE, sound_on |-> TRUE, menu_idx |-> 0, difficulty |-> 1,
     invincible_ticks |-> 2, shield_ticks |-> 0, magnet_ticks |-> 0,
     combo |-> 0, combo_display |-> 0,
     obstacles |-> <<[alive |-> TRUE, y |-> -18, lane |-> 2, type |-> 1],
         [alive |-> TRUE, y |-> 126, lane |-> 2, type |-> 1],
         [alive |-> TRUE, y |-> 90, lane |-> 1, type |-> 1],
         [alive |-> TRUE, y |-> 54, lane |-> 2, type |-> 1],
         [alive |-> TRUE, y |-> 18, lane |-> 2, type |-> 1]>>,
     coins |-> <<[alive |-> TRUE, y |-> -12, lane |-> 2], [alive |-> TRUE, y |-> 96, lane |-> 2],
         [alive |-> TRUE, y |-> 42, lane |-> 2]>>,
     powerups |-> <<[alive |-> TRUE, y |-> 24, lane |-> 1, type |-> 1], Dead>>,
     particles |-> <<0, 0, 0, 0, 0, 0, 0, 0, 0, 0, 0, 0>>,
     timer |-> [running |-> TRUE, period |-> 120]]

\* Tick 4622 of a first episode on normal difficulty: the player stays in
\* lane 1 and collects the 255 coins spawned there so far, one every 18
\* ticks; obstacles are sedans in lane 0, power-ups shields in lane 2: no
\* collision has been registered.
ComboEdge ==
    [state |-> "Playing", player_lane |-> 1, score |-> 819830, high_score |-> 0,
     level |-> 9, lives |-> 3, speed |-> 50, tick_count |-> 4622, road_scroll |-> 10,
     night_mode |-> FALSE, sound_on |-> TRUE, menu_idx |-> 0, difficulty |-> 1,
     invincible_ticks |-> 0, shield_ticks |-> 0, magnet_ticks |-> 0,
     combo |-> 255, combo_display |-> 0,
     obstacles |-> <<[alive |-> TRUE, y |-> 80, lane |-> 0, type |-> 1],
         [alive |-> TRUE, y |-> -4, lane |-> 0, type |-> 1], Dead, Dead, Dead>>,
     coins |-> <<[alive |-> TRUE, y |-> 86, lane |-> 1], Dead, Dead>>,
     powerups |-> <<[alive |-> TRUE, y |-> 2, lane |-> 2, type |-> 0], Dead>>,
     particles |-> <<0, 0, 0, 0, 0, 0, 0, 0, 0, 0, 0, 0>>,
     timer |-> [running |-> TRUE, period |-> 50]]

\* Tick 178 of a first episode on normal difficulty: the player stays in
\* lane 1 and collects the eight coins spawned there so far; every obstacle
\* has been a sedan in lane 0: no collision has been registered. The score
\* passed 1000 at tick 170, so level is 5; tick 180 is on all three
\* cadences.
TruckSpawnEdge ==
    [state |-> "Playing", player_lane |-> 1, score |-> 1010, high_score |-> 0,
     level |-> 5, lives |-> 3, speed |-> 80, tick_count |-> 178, road_scroll |-> 6,
     night_mode |-> FALSE, sound_on |-> TRUE, menu_idx |-> 0, difficulty |-> 1,
     invincible_ticks |-> 0, shield_ticks |-> 0, magnet_ticks |-> 0,
     combo |-> 8, combo_display |-> 7,
     obstacles |-> <<Dead,
         [alive |-> TRUE, y |-> 134, lane |-> 0, type |-> 1],
         [alive |-> TRUE, y |-> 86, lane |-> 0, type |-> 1],
         [alive |-> TRUE, y |-> 32, lane |-> 0, type |-> 1],
         Dead>>,
     coins |-> <<[alive |-> TRUE, y |-> 68, lane |-> 1], Dead, Dead>>,
     powerups |-> <<Dead, Dead>>,
     particles |-> <<0, 0, 0, 0, 0, 0, 0, 0, 0, 0, 0, 0>>,
     timer |-> [running |-> TRUE, period |-> 80]]

\* Tick 201 of the same episode, where tick 180 spawned a truck: the truck
\* is two ticks away from the player's row.
TruckEdge ==
    [state |-> "Playing", player_lane |-> 1, score |-> 1515, high_score |-> 0,
     level |-> 7, lives |-> 3, speed |-> 64, tick_count |-> 201, road_scroll |-> 11,
     night_mode |-> FALSE, sound_on |-> TRUE, menu_idx |-> 0, difficulty |-> 1,
     invincible_ticks |-> 0, shield_ticks |-> 0, magnet_ticks |-> 0,
     combo |-> 10, combo_display |-> 13,
     obstacles |-> <<[alive |-> TRUE, y |-> 83, lane |-> 1, type |-> 2],
         [alive |-> TRUE, y |-> 36, lane |-> 0, type |-> 1],
         Dead,
         Dead,
         Dead>>,
     coins |-> <<[alive |-> TRUE, y |-> 6, lane |-> 1], Dead, Dead>>,
     powerups |-> <<[alive |-> TRUE, y |-> 110, lane |-> 2, type |-> 0], Dead>>,
     particles |-> <<0, 0, 0, 0, 0, 0, 0, 0, 0, 0, 0, 0>>,
     timer |-> [running |-> TRUE, period |-> 64]]

\* Tick 13 of a first episode on easy difficulty, chosen in the menu (Up,
\* OK, OK, Down, OK): nothing has been spawned yet.
EasyEdge ==
    [state |-> "Playing", player_lane |-> 1, score |-> 0, high_score |-> 0,
     level |-> 0, lives |-> 3, speed |-> 140, tick_count |-> 13, road_scroll |-> 7,
     night_mode |-> FALSE, sound_on |-> TRUE, menu_idx |-> 0, difficulty |-> 0,
     invincible_ticks |-> 0, shield_ticks |-> 0, magnet_ticks |-> 0,
     combo |-> 0, combo_display |-> 0,
     obstacles |-> <<Dead, Dead, Dead, Dead, Dead>>,
     coins |-> <<Dead, Dead, Dead>>,
     powerups |-> <<Dead, Dead>>,
     particles |-> <<0, 0, 0, 0, 0, 0, 0, 0, 0, 0, 0, 0>>,
     timer |-> [running |-> TRUE, period |-> 140]]

\* Tick 52 of a first episode on hard difficulty, chosen in the menu (Up,
\* OK, Down, OK): the player stays in lane 1, every obstacle is a sedan in
\* lane 2 and every coin is in lane 0. The five obstacles spawned at ticks
\* 9 to 45 are all on the track; tick 54 is on the obstacle and the coin
\* cadence.
HardEdge ==
    [state |-> "Playing", player_lane |-> 1, score |-> 0, high_score |-> 0,
     level |-> 0, lives |-> 3, speed |-> 90, tick_count |-> 52, road_scroll |-> 12,
     night_mode |-> FALSE, sound_on |-> TRUE, menu_idx |-> 0, difficulty |-> 2,
     invincible_ticks |-> 0, shield_ticks |-> 0, magnet_ticks |-> 0,
     combo |-> 0, combo_display |-> 0,
     obstacles |-> <<[alive |-> TRUE, y |-> 111, lane |-> 2, type |-> 1],
         [alive |-> TRUE, y |-> 84, lane |-> 2, type |-> 1],
         [alive |-> TRUE, y |-> 57, lane |-> 2, type |-> 1],
         [alive |-> TRUE, y |-> 30, lane |-> 2, type |-> 1],
         [alive |-> TRUE, y |-> 3, lane |-> 2, type |-> 1]>>,
     coins |-> <<[alive |-> TRUE, y |-> 90, lane |-> 0],
         [alive |-> TRUE, y |-> 36, lane |-> 0],
         Dead>>,
     powerups |-> <<Dead, Dead>>,
     particles |-> <<0, 0, 0, 0, 0, 0, 0, 0, 0, 0, 0, 0>>,
     timer |-> [running |-> TRUE, period |-> 90]]

\* The sessions a behaviour starts from, each with the ticks since its last
\* registered collision and the ticks and keys the behaviour may go on for.
\* The high score is the one loaded at construction: no episode has ended.
\* Tick 1281 of a first episode on hard difficulty, chosen in the menu (Up,
\* OK, Down, OK): the player stays in lane 1, every obstacle is a sports car
\* in lane 2, every coin is in lane 0 and every power-up a shield in lane
\* 2. 139 obstacles have been retired and the obstacle at y = 129 retires
\* on tick 1283, which takes the score to 1400 and the level to 7, where
\* 90 - 7 * 8 is below the minimum interval of 35.
FloorEdge ==
    [state |-> "Playing", player_lane |-> 1, score |-> 1390, high_score |-> 0,
     level |-> 6, lives |-> 3, speed |-> 42, tick_count |-> 1281, road_scroll |-> 3,
     night_mode |-> FALSE, sound_on |-> TRUE, menu_idx |-> 0, difficulty |-> 2,
     invincible_ticks |-> 0, shield_ticks |-> 0, magnet_ticks |-> 0,
     combo |-> 0, combo_display |-> 0,
     obstacles |-> <<[alive |-> TRUE, y |-> 129, lane |-> 2, type |-> 0],
         [alive |-> TRUE, y |-> 66, lane |-> 2, type |-> 0],
         [alive |-> TRUE, y |-> 3, lane |-> 2, type |-> 0], Dead, Dead>>,
     coins |-> <<[alive |-> TRUE, y |-> 6, lane |-> 0],
         [alive |-> TRUE, y |-> 114, lane |-> 0], Dead>>,
     powerups |-> <<[alive |-> TRUE, y |-> 114, lane |-> 2, type |-> 0], Dead>>,
     particles |-> <<0, 0, 0, 0, 0, 0, 0, 0, 0, 0, 0, 0>>,
     timer |-> [running |-> TRUE, period |-> 42]]

\* Tick 217 of a first episode on normal difficulty: the player drove in
\* lane 2 and has just moved to lane 1; obstacles and coins in lane 0. The
\* coin and the magnet spawned at tick 180 are both at y = 99: tick 218
\* picks the magnet up with the coin at y = 102, and the motion stage of
\* tick 219 puts the coin on the player's row, y = 105, one lane away.
PullEdge ==
    [state |-> "Playing", player_lane |-> 1, score |-> 130, high_score |-> 0,
     level |-> 0, lives |-> 3, speed |-> 120, tick_count |-> 217, road_scroll |-> 11,
     night_mode |-> FALSE, sound_on |-> TRUE, menu_idx |-> 0, difficulty |-> 1,
     invincible_ticks |-> 0, shield_ticks |-> 0, magnet_ticks |-> 0,
     combo |-> 0, combo_display |-> 0,
     obstacles |-> <<[alive |-> TRUE, y |-> 57, lane |-> 0, type |-> 1],
         [alive |-> TRUE, y |-> 21, lane |-> 0, type |-> 1],
         [alive |-> TRUE, y |-> -15, lane |-> 0, type |-> 1],
         [alive |-> TRUE, y |-> 129, lane |-> 0, type |-> 1],
         [alive |-> TRUE, y |-> 93, lane |-> 0, type |-> 1]>>,
     coins |-> <<[alive |-> TRUE, y |-> 99, lane |-> 0],
         [alive |-> TRUE, y |-> 45, lane |-> 0],
         [alive |-> TRUE, y |-> -9, lane |-> 0]>>,
     powerups |-> <<[alive |-> TRUE, y |-> 99, lane |-> 1, type |-> 1], Dead>>,
     particles |-> <<0, 0, 0, 0, 0, 0, 0, 0, 0, 0, 0, 0>>,
     timer |-> [running |-> TRUE, period |-> 120]]

Starts ==
    {[s |-> Constructed(hs), since |-> NoHit, ticks |-> MaxTicks, keys |-> MaxKeys] :
        hs \in HighScores}
    \cup {[s |-> [LevelEdge EXCEPT !.high_score = hs], since |-> NoHit,
           ticks |-> EdgeTicks, keys |-> EdgeKeys] : hs \in HighScores}
    \cup {[s |-> g, since |-> NoHit, ticks |-> EdgeTicks, keys |-> EdgeKeys] :
           g \in {ShieldEdge, FuelEdge, MagnetEdge, ComboEdge, TruckEdge, EasyEdge,
                   HardEdge, FloorEdge, PullEdge}}
    \cup {[s |-> TruckSpawnEdge, since |-> NoHit, ticks |-> SpawnTicks, keys |-> SpawnKeys]}
    \cup {[s |-> GraceEdge, since |-> 18, ticks |-> EdgeTicks, keys |-> EdgeKeys],
          [s |-> GraceEdge, since |-> 18, ticks |-> PassTicks, keys |-> PassKeys]}

Init ==
    /\ \E st \in Starts :
          /\ s = st.s
          /\ ev = InitEv(st.s, st.since)
          /\ ticks_left = st.ticks
          /\ keys_left = st.keys
    /\ running = TRUE
    /\ queue = <<>>

\* ---- Events (lines 821-884) ---------------------------------------------
\* The draws a tick consumes: a spawn's draws only on its cadence tick, the
\* particle lives only when the tick registers a collision.
SpawnDraws(g) ==
    LET t == g.tick_count + 1
        obs == g.state = StatePlaying /\ t % diff_spawn[g.difficulty + 1] = 0
        coin == g.state = StatePlaying /\ t % COIN_CADENCE = 0
        pw == g.state = StatePlaying /\ t % POWERUP_CADENCE = 0
    IN [obs_lane : IF obs THEN Lanes ELSE {0},
        obs_r4 : IF obs THEN Draw4 ELSE {1},
        obs_r3 : IF obs THEN Draw3 ELSE {1},
        coin_lane : IF coin THEN Lanes ELSE {0},
        pw_lane : IF pw THEN Lanes ELSE {0},
        pw_type : IF pw THEN PowerUpTypes ELSE {PwShield},
        burst : {NoBurst}]

BurstDraws(g, d) ==
    IF g.state = StatePlaying /\ collision_registered(tick_before_collision(g, d))
    THEN BurstLives ELSE {NoBurst}

\* game_tick runs on a dequeued EventTypeTick event (lines 879-880).
HandleTick ==
    \E d \in SpawnDraws(s) : \E b \in BurstDraws(s, d) :
        LET rnd == [d EXCEPT !.burst = b]
        IN /\ s' = game_tick(s, rnd)
           /\ ev' = [tick_ev(s, rnd, ev.since)
                        EXCEPT !.culprits = Culprits(s, rnd, ev.culprits),
                               !.again = CulpritAgain(s, rnd, ev.culprits)]

\* The switch runs on a dequeued EventTypeKey event with type Press or
\* Repeat (lines 824-878).
HandleKey(key) ==
    /\ s' = handle_key(s, key)
    /\ running' = ~exit_requested(s, key)
    /\ ev' = [key_ev(s, key, ev.since)
                 EXCEPT !.culprits = IF key = "Ok" /\ s.state = StateMenu /\ s.menu_idx = 0
                                      THEN {} ELSE ev.culprits]

\* A dequeued EventTypeKey event of another type (a release): line 825
\* skips the switch.
HandleIgnored ==
    /\ ev' = [key_ev(s, "None", ev.since) EXCEPT !.culprits = ev.culprits]
    /\ UNCHANGED <<s, running>>

\* An EventTypeTick event is dequeued.
Tick ==
    /\ running
    /\ s.state = StatePlaying => ticks_left > 0
    /\ HandleTick
    /\ ticks_left' = IF s.state = StatePlaying THEN ticks_left - 1 ELSE ticks_left
    /\ UNCHANGED <<running, keys_left, queue>>

\* An EventTypeKey event with type Press or Repeat is dequeued.
Key(key) ==
    /\ running
    /\ keys_left > 0
    /\ HandleKey(key)
    /\ keys_left' = keys_left - 1
    /\ UNCHANGED <<ticks_left, queue>>

\* An EventTypeKey event of another type is dequeued.
KeyIgnored ==
    /\ running
    /\ keys_left > 0
    /\ HandleIgnored
    /\ keys_left' = keys_left - 1
    /\ UNCHANGED <<ticks_left, queue>>

KeyBack == Key("Back")
KeyOk == Key("Ok")
KeyUp == Key("Up")
KeyDown == Key("Down")
KeyLeft == Key("Left")
KeyRight == Key("Right")

Next ==
    \/ Tick
    \/ KeyBack
    \/ KeyOk
    \/ KeyUp
    \/ KeyDown
    \/ KeyLeft
    \/ KeyRight
    \/ KeyIgnored

Spec == Init /\ [][Next]_vars

\* ---- The message queue (lines 522-534, 807, 821-884) --------------------
\* Sessions QueueSpec starts from, with the number of timer expiries and of
\* input events each may see.
QueueStarts ==
    {[s |-> Constructed(0), since |-> NoHit, ticks |-> QueueTicks, keys |-> QueueKeys],
     [s |-> LevelEdge, since |-> NoHit, ticks |-> QueueTicks, keys |-> QueueKeys]}

QueueInit ==
    /\ \E st \in QueueStarts :
          /\ s = st.s
          /\ ev = InitEv(st.s, st.since)
          /\ ticks_left = st.ticks
          /\ keys_left = st.keys
    /\ running = TRUE
    /\ queue = <<>>

\* The timer expires (lines 529-534): the put has timeout 0, so the event
\* is dropped when the queue is full.
timer_callback ==
    /\ running
    /\ s.timer.running
    /\ ticks_left > 0
    /\ queue' = IF Len(queue) < QUEUE_CAP THEN Append(queue, "tick") ELSE queue
    /\ ticks_left' = ticks_left - 1
    /\ UNCHANGED <<s, running, ev, keys_left>>

\* The view port delivers an input event (lines 522-527): the put waits
\* forever, so it completes only when the queue has room.  "None" stands
\* for an event whose type is neither Press nor Repeat.
input_callback ==
    /\ running
    /\ keys_left > 0
    /\ Len(queue) < QUEUE_CAP
    /\ \E key \in Keys \cup {"None"} : queue' = Append(queue, key)
    /\ keys_left' = keys_left - 1
    /\ UNCHANGED <<s, running, ev, ticks_left>>

\* The loop takes the oldest event (line 822) and it is a tick.
DequeueTick ==
    /\ running
    /\ queue # <<>>
    /\ Head(queue) = "tick"
    /\ HandleTick
    /\ queue' = Tail(queue)
    /\ UNCHANGED <<running, ticks_left, keys_left>>

\* The loop takes the oldest event and it is a key press or repeat.
DequeueKey ==
    /\ running
    /\ queue # <<>>
    /\ Head(queue) \in Keys
    /\ HandleKey(Head(queue))
    /\ queue' = Tail(queue)
    /\ UNCHANGED <<ticks_left, keys_left>>

\* The loop takes the oldest event and it is another input event.
DequeueIgnored ==
    /\ running
    /\ queue # <<>>
    /\ Head(queue) = "None"
    /\ HandleIgnored
    /\ queue' = Tail(queue)
    /\ UNCHANGED <<ticks_left, keys_left>>

QueueNext ==
    \/ timer_callback
    \/ input_callback
    \/ DequeueTick
    \/ DequeueKey
    \/ DequeueIgnored

QueueSpec == QueueInit /\ [][QueueNext]_vars

\* ---- Properties ---------------------------------------------------------
Min2(a, b) == IF a < b THEN a ELSE b
Max2(a, b) == IF a > b THEN a ELSE b

\* The event just handled was a tick that ran the simulation.
PlayedTick == ev.type = "tick" /\ ev.ran

\* The event just handled was START chosen in the menu.
StartedEpisode ==
    ev.type = "key" /\ ev.key = "Ok" /\ ev.pre.state = StateMenu /\ ev.pre.menu_idx = 0

\* Coin slot trace c records a collection.
Collected(c) == c.slot.alive /\ ~c.now.alive

\* C1: after every tick processed while Playing, the tick that ends the
\* episode included, level equals min(score / 200, 9).
LevelTracksScore ==
    PlayedTick => s.level = Min2(s.score \div LEVEL_SCORE, MAX_LEVEL)

\* C2: no tick lowers level, and level is within 0..9 in every reachable
\* state.
LevelMonotone ==
    /\ s.level \in 0..MAX_LEVEL
    /\ ev.type = "tick" => s.level >= ev.pre.level

\* A tick has just raised level.
LevelRose == PlayedTick /\ s.level > ev.pre.level

\* C3: a tick on which the invincibility timer or the shield timer is above
\* zero when the collision test is made has none of the effects of a
\* collision: lives and combo keep the values they had at the test, no
\* particle burst starts and the episode goes on. The shield may have been
\* picked up earlier in the same tick.
ProtectedTickHasNoCollisionEffect ==
    (PlayedTick /\ (ev.mid_inv > 0 \/ ev.mid_shield > 0)) =>
        /\ s.lives = ev.mid_lives
        /\ s.combo = ev.mid_combo
        /\ ~ev.burst
        /\ s.state = StatePlaying

\* A tick picked up a shield while an obstacle overlapped the player, with
\* no invincibility left.
ShieldPickedUpUnderObstacle ==
    /\ PlayedTick
    /\ ev.overlap
    /\ ev.mid_inv = 0
    /\ ev.mid_shield = SHIELD_TICKS
    /\ s.lives = ev.pre.lives

\* C4: lives is within 0..5 in every reachable state, at least 1 whenever
\* the session is Playing, and a tick that brings lives to 0 ends in
\* GameOver.
LivesInRange ==
    /\ s.lives \in 0..MAX_LIVES
    /\ s.state = StatePlaying => s.lives >= 1
    /\ (PlayedTick /\ s.lives = 0) => s.state = StateGameOver

\* A tick has just taken the last life.
LastLifeLost ==
    PlayedTick /\ ev.pre.lives = 1 /\ s.lives = 0 /\ s.state = StateGameOver

\* C5: the session state changes only from Menu to Playing by OK on START,
\* from Playing to Menu by Back, from Playing to GameOver by a tick whose
\* collision brings lives to 0, and from GameOver to Menu by OK.
OnlyFourTransitions ==
    s.state # ev.pre.state =>
        \/ /\ ev.pre.state = StateMenu /\ s.state = StatePlaying
           /\ StartedEpisode
        \/ /\ ev.pre.state = StatePlaying /\ s.state = StateMenu
           /\ ev.type = "key" /\ ev.key = "Back"
        \/ /\ ev.pre.state = StatePlaying /\ s.state = StateGameOver
           /\ PlayedTick /\ ev.hit /\ s.lives = 0
        \/ /\ ev.pre.state = StateGameOver /\ s.state = StateMenu
           /\ ev.type = "key" /\ ev.key = "Ok"

\* OK on the game-over screen has just returned the session to the menu.
ReturnedToMenuAfterGameOver ==
    /\ ev.type = "key" /\ ev.key = "Ok"
    /\ ev.pre.state = StateGameOver
    /\ s.state = StateMenu

\* C6: the high score changes only on the tick that takes the session from
\* Playing to GameOver, where it becomes the larger of its previous value
\* and the final score; every other event leaves it as it was, Back during
\* play with a score above it included.
HighScoreOnlyAtGameOver ==
    IF PlayedTick /\ s.state = StateGameOver
    THEN s.high_score = Max2(ev.pre.high_score, s.score)
    ELSE s.high_score = ev.pre.high_score

\* The tick that ended the episode has just raised the high score.
RecordBeatenAtGameOver ==
    /\ PlayedTick /\ s.state = StateGameOver
    /\ s.score > ev.pre.high_score
    /\ s.high_score = s.score

\* Back has just paused an episode whose score is above the high score.
PausedAboveRecord ==
    /\ ev.type = "key" /\ ev.key = "Back" /\ ev.pre.state = StatePlaying
    /\ s.score > s.high_score

\* C7: within an episode a tick that registers a collision leaves combo at
\* 0, and no other tick and no key lowers combo, however many coins have
\* been collected.
ComboOnlyResetByCollision ==
    /\ (PlayedTick /\ ev.hit) => s.combo = 0
    /\ (ev.type # "init" /\ ~(PlayedTick /\ ev.hit) /\ ~StartedEpisode) =>
            s.combo >= ev.pre.combo

\* C8: no collision is registered on any of the 20 ticks that follow a tick
\* registering a collision that left the episode running.
GraceWindowTwentyTicks ==
    (PlayedTick /\ ev.hit) => ev.pre_since >= INVINCIBLE_TICKS

\* C9: while the magnet is active, a coin within range that does not
\* overlap the player is moved toward the player and stays on the track to
\* the end of the tick, without changing combo or score, even when the move
\* puts it on the player; a coin is collected only when it overlapped the
\* player before any pull.
PulledCoinStaysOnTrack ==
    PlayedTick =>
        \A i \in 1..MAX_COINS :
            LET c == ev.coins[i]
            IN /\ (c.pull /\ ~c.touch) =>
                    /\ c.now.alive
                    /\ c.now # c.slot
                    /\ s.coins[i] = c.now
                    /\ c.combo1 = c.combo0
                    /\ c.score1 = c.score0
               /\ Collected(c) => c.touch

\* The magnet has just moved a coin onto the player.
PulledOntoPlayer ==
    /\ PlayedTick
    /\ \E i \in 1..MAX_COINS :
            /\ ev.coins[i].pull /\ ~ev.coins[i].touch
            /\ s.coins[i].alive
            /\ item_touch(car_lx(s.player_lane), s.coins[i])

\* C10: each coin collection raises combo by one, sets the combo display to
\* 15 and adds 25 * max(combo after the increment, 1) to the score.
CoinAward ==
    PlayedTick =>
        \A i \in 1..MAX_COINS :
            Collected(ev.coins[i]) =>
                /\ ev.coins[i].combo1 = ev.coins[i].combo0 + 1
                /\ ev.coins[i].display1 = COMBO_DISPLAY_TICKS
                /\ ev.coins[i].score1 =
                        ev.coins[i].score0 + COIN_POINTS * Max2(ev.coins[i].combo1, 1)

\* C11: an obstacle is made a truck at spawn only if the level at that
\* moment is above 0 and a multiple of 5, and every truck on the track is in
\* lane 1.
WideOnlyAtLevelMultiple ==
    /\ \A i \in 1..MAX_OBS :
          (s.obstacles[i].alive /\ s.obstacles[i].type = ObsTruck) =>
              s.obstacles[i].lane = 1
    /\ PlayedTick =>
          \A o \in ev.obs.new :
              o.type = ObsTruck =>
                  /\ ev.pre.level > 0
                  /\ ev.pre.level % 5 = 0
                  /\ o.lane = 1

\* A tick has just spawned a truck.
TruckSpawned ==
    /\ PlayedTick
    /\ \E o \in ev.obs.new : o.type = ObsTruck
    /\ \E i \in 1..MAX_OBS : s.obstacles[i].alive /\ s.obstacles[i].type = ObsTruck

\* Obstacle o is a truck on the track.
IsTruck(o) == o.alive /\ o.type = ObsTruck

\* The rows of obstacle o's box and of the player's box overlap.
InPlayerRow(o) == PLAYER_Y < o.y + obs_oh(o) /\ PLAYER_Y + CAR_H > o.y

SpawnedOnCadence(tr, t, cadence) ==
    (tr.new # {}) <=> (tr.free /\ t % cadence = 0)

\* C13: on a tick processed while Playing, with t the tick counter's value
\* during the tick, an obstacle is spawned into a free slot exactly when t
\* is a multiple of 15, 12 or 9 for easy, normal or hard difficulty, a coin
\* exactly when t is a multiple of 18 and a power-up exactly when t is a
\* multiple of 60, whatever the earlier spawn attempts found.
SpawnCadence ==
    PlayedTick =>
        /\ SpawnedOnCadence(ev.obs, s.tick_count,
                            IF s.difficulty = DiffEasy THEN 15
                            ELSE IF s.difficulty = DiffNormal THEN 12 ELSE 9)
        /\ SpawnedOnCadence(ev.coin, s.tick_count, 18)
        /\ SpawnedOnCadence(ev.pw, s.tick_count, 60)

\* A tick on the obstacle cadence and the coin cadence of hard difficulty
\* has just found the obstacle pool full and spawned a coin.
ObstaclePoolFullOnCadence ==
    /\ PlayedTick
    /\ s.difficulty = DiffHard
    /\ s.tick_count % 9 = 0
    /\ ~ev.obs.free /\ ev.obs.new = {}
    /\ ev.coin.new # {}

\* C14: START chosen in the menu, also after an episode left with Back or
\* ended in GameOver, yields Playing with score 0, level 0, lives 3, tick
\* counter 0, combo 0, the three timed counters 0, the player in the center
\* lane, the tick interval at the base speed of the difficulty, every
\* obstacle, coin and power-up slot inactive and every particle at life 0;
\* high score, sound flag, night-mode flag and difficulty are kept.
StartResetsEpisode ==
    StartedEpisode =>
        /\ s.state = StatePlaying
        /\ s.score = 0 /\ s.level = 0 /\ s.lives = 3
        /\ s.tick_count = 0 /\ s.combo = 0
        /\ s.invincible_ticks = 0 /\ s.shield_ticks = 0 /\ s.magnet_ticks = 0
        /\ s.player_lane = 1
        /\ s.speed = (IF s.difficulty = DiffEasy THEN 140
                      ELSE IF s.difficulty = DiffNormal THEN 120 ELSE 90)
        /\ s.timer = [running |-> TRUE, period |-> s.speed]
        /\ \A i \in 1..MAX_OBS : ~s.obstacles[i].alive
        /\ \A i \in 1..MAX_COINS : ~s.coins[i].alive
        /\ \A i \in 1..MAX_POWERUPS : ~s.powerups[i].alive
        /\ \A i \in 1..MAX_PARTICLES : s.particles[i] = 0
        /\ s.high_score = ev.pre.high_score
        /\ s.sound_on = ev.pre.sound_on
        /\ s.night_mode = ev.pre.night_mode
        /\ s.difficulty = ev.pre.difficulty

\* START has just been chosen after an episode that ended in GameOver with
\* points scored.
RestartedAfterGameOver ==
    StartedEpisode /\ ev.pre.lives = 0 /\ ev.pre.score > 0

\* START has just been chosen after an episode left with Back.
RestartedAfterBack ==
    StartedEpisode /\ ev.pre.lives > 0 /\ ev.pre.score > 0

\* The event just handled was a key event delivered in GameOver.
KeyInGameOver == ev.type = "key" /\ ev.pre.state = StateGameOver

\* C15: in GameOver the only input with an effect is OK, which moves the
\* session to Menu; Up, Down, Left, Right and Back leave the session as it
\* was and the application running.
GameOverOnlyOkActs ==
    KeyInGameOver =>
        IF ev.key = "Ok" THEN s.state = StateMenu /\ running
        ELSE ev.kept /\ running

\* C15 as the source has it: in GameOver OK moves the session to Menu; Up,
\* Down, Left and Right leave the session as it was and the application
\* running; Back leaves the session as it was and ends the event loop.
GameOverOkOrExit ==
    KeyInGameOver =>
        IF ev.key = "Ok" THEN s.state = StateMenu /\ running
        ELSE IF ev.key = "Back" THEN ev.kept /\ ~running
        ELSE ev.kept /\ running

\* Back has just ended the event loop from the game-over screen.
BackEndedLoopInGameOver ==
    /\ KeyInGameOver /\ ev.key = "Back"
    /\ s.state = StateGameOver
    /\ ~running

\* C16: Back delivered in Menu changes no field of the session; its only
\* effect is to end the event loop.
BackInMenuOnlyExits ==
    (ev.type = "key" /\ ev.key = "Back" /\ ev.pre.state = StateMenu) =>
        ev.kept /\ ~running

\* Back has just ended the event loop from the menu, with another menu
\* entry than START selected.
BackEndedLoopInMenu ==
    /\ ev.type = "key" /\ ev.key = "Back" /\ ev.pre.state = StateMenu
    /\ s.state = StateMenu /\ s.menu_idx # 0
    /\ ~running

\* C17: the sound flag, the night-mode flag and the difficulty change only
\* through OK handled in Menu; no tick and no key handled in Playing or
\* GameOver changes them.
PreferencesOnlyFromMenu ==
    (\/ s.sound_on # ev.pre.sound_on
     \/ s.night_mode # ev.pre.night_mode
     \/ s.difficulty # ev.pre.difficulty) =>
        ev.type = "key" /\ ev.key = "Ok" /\ ev.pre.state = StateMenu

\* OK on the difficulty entry of the menu has just changed the difficulty.
DifficultyChanged ==
    /\ ev.type = "key" /\ ev.key = "Ok" /\ ev.pre.state = StateMenu
    /\ ev.pre.menu_idx = 3
    /\ s.difficulty # ev.pre.difficulty

\* The level that goes with a score (lines 777-778, for scores below
\* 200 * 256).
LevelOf(score) == Min2(score \div LEVEL_SCORE, MAX_LEVEL)

\* C18: within a tick processed while Playing the stages run in the order
\* progression, spawning, motion and retirement, collision and collection,
\* decay of the timed counters.  With progression first the level after the
\* tick is the one that goes with the score before it; with spawning before
\* motion nothing is at its spawn row when the tick ends; with decay last
\* no timed counter ends a tick at the value a pickup or a collision sets.
TickOrderDecayLast ==
    PlayedTick =>
        /\ s.level = Max2(ev.pre.level, LevelOf(ev.pre.score))
        /\ \A i \in 1..MAX_OBS :
              s.obstacles[i].alive => s.obstacles[i].y # OBS_SPAWN_Y
        /\ \A i \in 1..MAX_COINS : s.coins[i].alive => s.coins[i].y # ITEM_SPAWN_Y
        /\ \A i \in 1..MAX_POWERUPS :
              s.powerups[i].alive => s.powerups[i].y # ITEM_SPAWN_Y
        /\ s.invincible_ticks < INVINCIBLE_TICKS
        /\ s.shield_ticks < SHIELD_TICKS
        /\ s.magnet_ticks < MAGNET_TICKS

\* C18 as the source has it: the stages run in the order decay of the timed
\* counters, motion and retirement, spawning, collection and collision,
\* progression.  What the tick spawns is at its spawn row when the tick ends;
\* the collision test is made on the positions the tick ends with; a counter
\* set by a pickup or a collision ends the tick at the value set; and the
\* level after a tick that leaves the session Playing is the one that goes
\* with the score after it.
TickOrderDecayFirst ==
    PlayedTick =>
        /\ \A o \in ev.obs.new :
              o.y = OBS_SPAWN_Y /\ \E i \in 1..MAX_OBS : s.obstacles[i] = o
        /\ \A c \in ev.coin.new :
              c.y = ITEM_SPAWN_Y /\ \E i \in 1..MAX_COINS : s.coins[i] = c
        /\ \A p \in ev.pw.new :
              p.y = ITEM_SPAWN_Y /\ \E i \in 1..MAX_POWERUPS : s.powerups[i] = p
        /\ ev.overlap <=> check_collision(s)
        /\ (ev.hit /\ s.state = StatePlaying) => s.invincible_ticks = INVINCIBLE_TICKS
        /\ ev.mid_shield = SHIELD_TICKS => s.shield_ticks = SHIELD_TICKS
        /\ s.state = StatePlaying => s.level = LevelOf(s.score)

\* A tick has just raised the level on points scored in the tick itself.
LevelRoseOnOwnPoints ==
    /\ PlayedTick
    /\ s.level > ev.pre.level
    /\ LevelOf(ev.pre.score) = ev.pre.level

\* A tick has just spawned an obstacle, a coin and a power-up.
SpawnedAllThree ==
    PlayedTick /\ ev.obs.new # {} /\ ev.coin.new # {} /\ ev.pw.new # {}

\* ---- C19 ----------------------------------------------------------------
\* C19: a tick handled while the session is in Menu or GameOver changes
\* nothing of the session and runs no part of the simulation; that covers
\* a tick the timer put in the queue while the session was Playing and the
\* loop takes after the session has left Playing.
StaleTickChangesNothing ==
    (ev.type = "tick" /\ ev.pre.state # StatePlaying) => (ev.kept /\ ~ev.ran)

\* A tick put in the queue during play was handled in Menu, after Back.
StaleTickAfterBack ==
    /\ ev.type = "tick"
    /\ ev.pre.state = StateMenu
    /\ ev.kept
    /\ s.timer.running = FALSE
    /\ ticks_left < QueueTicks

\* A tick put in the queue during play was handled in GameOver.
StaleTickAfterGameOver ==
    /\ ev.type = "tick"
    /\ ev.pre.state = StateGameOver
    /\ ev.kept


\* ---- C20 ----------------------------------------------------------------
\* C20: the periodic timer runs exactly when the session is Playing, and
\* while it runs its period is the session's tick interval: the start action
\* starts it, Back out of Playing and the fatal tick stop it within the
\* handler, a level-up leaves it running at the new interval, and it never
\* runs in Menu or GameOver.
TimerRunsExactlyWhenPlaying ==
    /\ s.timer.running <=> s.state = StatePlaying
    /\ s.timer.running => s.timer.period = s.speed

\* A level-up shortened the tick interval and the timer runs at the new one.
TimerRestartedOnLevelUp ==
    /\ ev.type = "tick"
    /\ s.level > ev.pre.level
    /\ s.speed < ev.pre.speed
    /\ s.timer = [running |-> TRUE, period |-> s.speed]

\* The fatal tick stopped the timer.
TimerStoppedByFatalTick ==
    /\ ev.type = "tick"
    /\ ev.pre.state = StatePlaying
    /\ s.state = StateGameOver
    /\ ~s.timer.running

\* Back out of Playing stopped the timer.
TimerStoppedByBack ==
    /\ ev.type = "key" /\ ev.key = "Back"
    /\ ev.pre.state = StatePlaying
    /\ s.state = StateMenu
    /\ ~s.timer.running

\* ---- C21 ----------------------------------------------------------------
\* The interval that lines 781-783 give a level on a difficulty.
TickInterval(difficulty, level) ==
    Max2(diff_speed[difficulty + 1] - SPEED_STEP * level, diff_min_speed[difficulty + 1])

\* C21: while the session is Playing the tick interval is the base interval
\* of the difficulty less 8 per level, raised to the minimum interval of the
\* difficulty ((140,70) easy, (120,50) normal, (90,35) hard); the timer's
\* period is that interval; the interval is never below the minimum, and no
\* event handled during an episode makes it longer.
IntervalFollowsLevel ==
    /\ s.state = StatePlaying =>
        /\ s.speed = TickInterval(s.difficulty, s.level)
        /\ s.speed = (IF s.difficulty = DiffEasy THEN Max2(140 - 8 * s.level, 70)
                      ELSE IF s.difficulty = DiffNormal THEN Max2(120 - 8 * s.level, 50)
                      ELSE Max2(90 - 8 * s.level, 35))
        /\ s.timer.period = s.speed
        /\ s.speed >= diff_min_speed[s.difficulty + 1]
    /\ (ev.type \in {"tick", "key"} /\ ev.pre.state = StatePlaying
            /\ s.state = StatePlaying) => s.speed <= ev.pre.speed

\* A level-up took the interval to the minimum of the difficulty, where the
\* subtraction alone is below it.
IntervalFloored ==
    /\ ev.type = "tick"
    /\ s.state = StatePlaying
    /\ s.level > ev.pre.level
    /\ diff_speed[s.difficulty + 1] - SPEED_STEP * s.level < diff_min_speed[s.difficulty + 1]
    /\ s.speed = diff_min_speed[s.difficulty + 1]
    /\ s.speed < ev.pre.speed

\* ---- C22 ----------------------------------------------------------------
\* The points the tick awarded for coin slot i (lines 618-619): 25 times the
\* combo the collection left, at least 25; nothing when it was not collected.
TickCoinAward(i) ==
    IF Collected(ev.coins[i]) THEN COIN_POINTS * Max2(ev.coins[i].combo1, 1) ELSE 0

\* The start action: OK on START in the menu.
StartKey == ev.type = "key" /\ ev.key = "Ok" /\ ev.pre.state = StateMenu /\ ev.pre.menu_idx = 0

\* C22: a tick of an episode changes the score by exactly 10 per obstacle
\* retired in it plus its coin awards, so that retiring a coin or a
\* power-up, picking up a power-up and a collision add nothing; an input
\* event other than start leaves the score as it is; the score never
\* decreases except by start.
ScoreChangesOnlyByAwards ==
    /\ PlayedTick =>
         s.score = ev.pre.score + OBSTACLE_POINTS * ev.retired
                    + TickCoinAward(1) + TickCoinAward(2) + TickCoinAward(3)
    /\ (ev.type = "tick" /\ ~ev.ran) => s.score = ev.pre.score
    /\ (ev.type = "key" /\ ~StartKey) => s.score = ev.pre.score
    /\ (ev.type \in {"tick", "key"} /\ ~StartKey) => s.score >= ev.pre.score

\* A tick retired an obstacle and collected a coin, and the score rose by
\* the sum of the two awards.
RetiredAndCollected ==
    /\ PlayedTick
    /\ ev.retired > 0
    /\ \E i \in 1..MAX_COINS : Collected(ev.coins[i])
    /\ s.score >= ev.pre.score + OBSTACLE_POINTS + COIN_POINTS

\* A tick picked up a shield and the score stayed as it was.
PickupAddsNothing ==
    /\ PlayedTick
    /\ s.shield_ticks = SHIELD_TICKS
    /\ s.score = ev.pre.score

\* A tick registered a collision and the score stayed as it was.
CollisionAddsNothing ==
    /\ PlayedTick
    /\ ev.hit
    /\ s.score = ev.pre.score

\* ---- C23 ----------------------------------------------------------------
\* Coin slot i was pulled by the magnet in the tick: the slot is active
\* before and after its iteration of the loop and has changed.
Pulled(c) == c.slot.alive /\ c.now.alive /\ c.now # c.slot

\* C23: a coin pulled by the magnet moves 4 px vertically toward the
\* player's row, never away from it, and one lane toward the player's lane
\* (none when it is in that lane); only an active coin that does not overlap
\* the player, within 30 px of the player's row while the magnet timer is
\* above 0, is pulled.
MagnetPullTowardPlayer ==
    PlayedTick =>
        \A i \in 1..MAX_COINS :
            LET c == ev.coins[i]
                lane == ev.pre.player_lane
            IN Pulled(c) =>
                /\ c.pull /\ ~c.touch
                /\ Abs(c.slot.y - PLAYER_Y) < MAGNET_RANGE
                /\ Abs(c.now.y - c.slot.y) = MAGNET_STEP
                /\ Abs(c.now.y - PLAYER_Y) <= Abs(c.slot.y - PLAYER_Y)
                /\ c.now.lane = (IF c.slot.lane < lane THEN c.slot.lane + 1
                                 ELSE IF c.slot.lane > lane THEN c.slot.lane - 1
                                 ELSE c.slot.lane)

\* ---- C24 ----------------------------------------------------------------
Lowest(S) == CHOOSE i \in S : \A j \in S : i <= j

\* A spawn stage on a tick whose counter is t: on the cadence, with an
\* inactive slot, it changed the lowest inactive slot and no other and left
\* an active entity there; otherwise it changed no slot.
SpawnedInFirstFree(tr, t, cadence) ==
    IF t % cadence = 0 /\ tr.inactive # {}
    THEN tr.changed = {Lowest(tr.inactive)} /\ \A o \in tr.new : o.alive
    ELSE tr.changed = {}

ActiveCount(pool) == Cardinality({i \in DOMAIN pool : pool[i].alive})

\* C24: a spawn attempt activates the lowest-index inactive slot of its pool
\* and alters no other slot; with every slot active it changes nothing; an
\* attempt is made on every cadence tick whatever the earlier ones found;
\* the pools hold 5 obstacles, 3 coins and 2 power-ups and never more.
SpawnFillsFirstFreeSlot ==
    /\ PlayedTick =>
        /\ SpawnedInFirstFree(ev.obs, s.tick_count, diff_spawn[s.difficulty + 1])
        /\ SpawnedInFirstFree(ev.coin, s.tick_count, COIN_CADENCE)
        /\ SpawnedInFirstFree(ev.pw, s.tick_count, POWERUP_CADENCE)
    /\ DOMAIN s.obstacles = 1..5 /\ ActiveCount(s.obstacles) <= 5
    /\ DOMAIN s.coins = 1..3 /\ ActiveCount(s.coins) <= 3
    /\ DOMAIN s.powerups = 1..2 /\ ActiveCount(s.powerups) <= 2

\* An obstacle was spawned into the lowest of several inactive slots, which
\* was not the first slot of the pool.
SpawnedPastActiveSlot ==
    /\ PlayedTick
    /\ Cardinality(ev.obs.inactive) >= 2
    /\ 1 \notin ev.obs.inactive
    /\ ev.obs.changed = {Lowest(ev.obs.inactive)}

\* A cadence tick found the obstacle pool full and left all five obstacles
\* as the motion stage had them.
FullPoolLeftAlone ==
    /\ PlayedTick
    /\ s.tick_count % diff_spawn[s.difficulty + 1] = 0
    /\ ev.obs.inactive = {}
    /\ ev.obs.changed = {}

\* ---- C25 ----------------------------------------------------------------
\* C25: the player's lane and the lane of every active obstacle, coin and
\* power-up are 0, 1 or 2 in every reachable state, also for a coin the
\* magnet has pulled; Left in lane 0 and Right in lane 2 leave the player's
\* lane as it is; Left and Right outside Playing change nothing.
LanesInRange ==
    /\ s.player_lane \in 0..2
    /\ \A i \in 1..MAX_OBS : s.obstacles[i].alive => s.obstacles[i].lane \in 0..2
    /\ \A i \in 1..MAX_COINS : s.coins[i].alive => s.coins[i].lane \in 0..2
    /\ \A i \in 1..MAX_POWERUPS : s.powerups[i].alive => s.powerups[i].lane \in 0..2
    /\ PlayedTick =>
         \A i \in 1..MAX_COINS : Pulled(ev.coins[i]) => ev.coins[i].now.lane \in 0..2
    /\ (ev.type = "key" /\ ev.key = "Left" /\ ev.pre.player_lane = 0) => s.player_lane = 0
    /\ (ev.type = "key" /\ ev.key = "Right" /\ ev.pre.player_lane = 2) => s.player_lane = 2
    /\ (ev.type = "key" /\ ev.key \in {"Left", "Right"} /\ ev.pre.state # StatePlaying)
          => ev.kept

\* Left was pressed during play with the player in lane 0 and the session
\* was left as it was.
LeftInLeftmostLane ==
    /\ ev.type = "key" /\ ev.key = "Left"
    /\ ev.pre.state = StatePlaying
    /\ ev.pre.player_lane = 0
    /\ s.player_lane = 0
    /\ ev.kept

\* Right was pressed during play with the player in lane 2.
RightInRightmostLane ==
    /\ ev.type = "key" /\ ev.key = "Right"
    /\ ev.pre.state = StatePlaying
    /\ ev.pre.player_lane = 2
    /\ s.player_lane = 2

\* A coin pulled twice has reached the player's lane from two lanes away.
PulledAcrossTheRoad ==
    /\ PlayedTick
    /\ \E i \in 1..MAX_COINS :
          /\ Pulled(ev.coins[i])
          /\ ev.coins[i].slot.lane = 1
          /\ ev.coins[i].now.lane = ev.pre.player_lane
          /\ ev.pre.player_lane \in {0, 2}

\* ---- C26 ----------------------------------------------------------------
\* Obstacle o, in the player's row, is one that the claim has collide with a
\* player in the given lane: a truck, or any obstacle of that lane.
Threatens(o, lane) == o.alive /\ InPlayerRow(o) /\ (o.type = ObsTruck \/ o.lane = lane)

\* C26: a truck is in the center lane, and one that overlaps the player's
\* box vertically overlaps it horizontally in each of the three lanes, so a
\* tick with the invincibility and shield timers at 0 registers a collision
\* whatever the player's lane; a motorcycle or a sedan does so only from
\* the player's own lane.
CollisionByClassAndLane ==
    /\ \A i \in 1..MAX_OBS : IsTruck(s.obstacles[i]) => s.obstacles[i].lane = 1
    /\ (PlayedTick /\ ev.mid_inv = 0 /\ ev.mid_shield = 0) =>
         (ev.hit <=> \E i \in 1..MAX_OBS : Threatens(s.obstacles[i], s.player_lane))
    /\ PlayedTick =>
         (ev.overlap <=> \E i \in 1..MAX_OBS : Threatens(s.obstacles[i], s.player_lane))

\* A truck in the center lane hit the player in lane 0.
TruckHitLeftLane ==
    /\ PlayedTick /\ ev.hit
    /\ s.player_lane = 0
    /\ \E i \in 1..MAX_OBS : IsTruck(s.obstacles[i]) /\ InPlayerRow(s.obstacles[i])
    /\ \A i \in 1..MAX_OBS :
          (s.obstacles[i].alive /\ InPlayerRow(s.obstacles[i])) => IsTruck(s.obstacles[i])

\* A truck in the center lane overlapped the player in lane 2.
TruckOverlapRightLane ==
    /\ PlayedTick /\ ev.overlap
    /\ s.player_lane = 2
    /\ \E i \in 1..MAX_OBS : IsTruck(s.obstacles[i]) /\ InPlayerRow(s.obstacles[i])

\* A truck hit the player in the center lane.
TruckHitCenterLane ==
    /\ PlayedTick /\ ev.hit
    /\ s.player_lane = 1
    /\ \E i \in 1..MAX_OBS : IsTruck(s.obstacles[i]) /\ InPlayerRow(s.obstacles[i])

\* A sedan or a motorcycle passed through the player's row in the next lane
\* with both timers at 0 and no collision was registered.
PassedInNextLane ==
    /\ PlayedTick /\ ~ev.hit
    /\ ev.mid_inv = 0 /\ ev.mid_shield = 0
    /\ \E i \in 1..MAX_OBS :
          /\ s.obstacles[i].alive /\ ~IsTruck(s.obstacles[i])
          /\ InPlayerRow(s.obstacles[i])
          /\ Abs(s.obstacles[i].lane - s.player_lane) = 1

\* ---- C27 ----------------------------------------------------------------
\* The most ticks an obstacle of the given class can end inside the player's
\* rows at the given level: the rows PLAYER_Y - height + 1 .. PLAYER_Y +
\* CAR_H - 1 (line 589) taken in steps of its displacement (lines 720-725).
TicksInRow(level, type) ==
    LET rows == obs_oh([type |-> type]) + CAR_H - 1
        move == obs_move([level |-> level], [type |-> type])
    IN (rows + move - 1) \div move

\* C27: an obstacle that has registered a collision is out of the player's
\* rows, or retired, before the invincibility counter set by that collision
\* lets a tick register a collision again, at every level and for every
\* class; so no obstacle takes two lives.
OneLifePerObstacle ==
    /\ s.state = StatePlaying =>
         \A i \in ev.culprits :
            (s.obstacles[i].alive /\ InPlayerRow(s.obstacles[i])) => s.invincible_ticks > 1
    /\ ~ev.again
    /\ \A level \in 0..MAX_LEVEL : \A type \in {ObsMoto, ObsSedan, ObsTruck} :
          TicksInRow(level, type) < INVINCIBLE_TICKS - 1

\* The obstacle that registered the episode's last collision has left the
\* player's rows, is still on the track, and invincibility has ticks to run.
CulpritLeftRowInsideWindow ==
    /\ PlayedTick
    /\ s.state = StatePlaying
    /\ \E i \in ev.culprits :
          /\ s.obstacles[i].alive
          /\ s.obstacles[i].y >= PLAYER_Y + CAR_H
    /\ s.invincible_ticks > 1

====
